---- MODULE Spec2Model ----
(***************************************************************************)
(* Server lifecycle of the Rosetta API server                              *)
(* (rs/rosetta-api/icp/src/rosetta_server.rs): the ServerState machine     *)
(* driven by run(), the cooperative shutdown driven by stop(), the         *)
(* background block-sync task (start_sync_thread) and the watchdog that    *)
(* supervises it.  Time is a discrete clock counting seconds.              *)
(*                                                                         *)
(* The watchdog type (rosetta_core::watchdog::WatchdogThread) is used by   *)
(* run() but defined in another crate; its behaviour is taken from the     *)
(* written specification of SyncWatchdog.  The options mainnet and         *)
(* not_whitelisted only select the text of a log line and carry no state.  *)
(***************************************************************************)
EXTENDS Integers, FiniteSets, Sequences, TLC

\* ---- bounds of the model -------------------------------------------------
MaxTime == 12
MaxInst == 2
MaxIter == 2
MaxCalls == 3

\* ---- program constants ---------------------------------------------------
BLOCK_SYNC_INTERVAL == 1
BLOCK_SYNC_TIMEOUT == 10
skip_first_heartbeat_check == TRUE

\* the concurrent callers of run() and of stop()
RunCallers == 1..2
StopCallers == 1..2
Instances == 1..MaxInst

\* the protocol error codes an ApiError converts to, and the labels of
\* rosetta_api_status_total that with_label_values can create
ErrorCodes == {500, 700, 701}
StatusKeys == {"200", "700"} \cup {ToString(c) : c \in ErrorCodes}

VARIABLES
    now,                  \* the monotonic clock (Instant::now()), in seconds
    serverState,          \* content of RosettaApiServer.server (Mutex<ServerState>)
    guard,                \* run() caller holding the mutex guard, 0 when free
    opts,                 \* options destructured by the run() that took Unstarted
    runPc, runRes,        \* position and io::Result of every run() call
    runObs,               \* the ServerState each run() call got from replace()
    served,               \* how many times the Server future was awaited
    wdStarts,             \* how many times a WatchdogThread was started
    stopped,              \* RosettaApiServer.stopped (Arc<AtomicBool>)
    stopPc,               \* position of every stop() call
    listener,             \* the actix Server future moved out of Unstarted
    lstStopReq,           \* a stop command was sent through a ServerHandle
    wd, wdSkip, wdTask,   \* WatchdogThread: loop state, skip flag, supervised task
    lastHeartbeat,        \* WatchdogThread: time the staleness timer was reset
    tasks, nTasks,        \* SyncTask instances spawned by start_sync_thread
    SYNC_ERR_COUNTER, OUT_OF_SYNC_TIME, OUT_OF_SYNC_TIME_HIST, SYNC_THREAD_RESTARTS,
    consecutiveErrors,    \* failed sync_blocks iterations since the last success
    rosetta_api_status_total,  \* ENDPOINTS_METRICS.rosetta_api_status_total by label
    httpCalls,            \* how many times to_rosetta_response was called
    httpResult,           \* the Result given to the last to_rosetta_response call
    httpResponse          \* the HttpResponse it returned

vars == <<now, serverState, guard, opts, runPc, runRes, runObs, served, wdStarts,
          stopped, stopPc, listener, lstStopReq, wd, wdSkip, wdTask, lastHeartbeat,
          tasks, nTasks, SYNC_ERR_COUNTER, OUT_OF_SYNC_TIME, OUT_OF_SYNC_TIME_HIST,
          SYNC_THREAD_RESTARTS, consecutiveErrors, rosetta_api_status_total,
          httpCalls, httpResult, httpResponse>>

lifecycleVars == <<serverState, guard, opts, runPc, runRes, runObs>>
stopVars == <<stopped, stopPc>>
listenerVars == <<listener, lstStopReq, served>>
wdVars == <<wd, wdSkip, wdTask, lastHeartbeat, wdStarts>>
taskVars == <<tasks, nTasks>>
metricVars == <<SYNC_ERR_COUNTER, OUT_OF_SYNC_TIME, OUT_OF_SYNC_TIME_HIST,
                SYNC_THREAD_RESTARTS, consecutiveErrors>>
httpVars == <<rosetta_api_status_total, httpCalls, httpResult, httpResponse>>

\* enum ServerState
ServerState == {"Unstarted", "Started", "OfflineStarted", "Failed"}

\* #[derive(Default)] struct RosettaApiServerOpt
RosettaApiServerOpt == [exit_on_sync : BOOLEAN, offline : BOOLEAN]
DefaultOpt == [exit_on_sync |-> FALSE, offline |-> FALSE]

ListenerDone == listener \in {"done_ok", "done_err"}

NoTask == [pc |-> "none", status |-> "none", res |-> "none", synced_at |-> 0,
           nextTick |-> 0, calls |-> 0, mets |-> 0, hbs |-> 0, cleanups |-> 0]

Live(i) == tasks[i].status = "live"
Terminated(i) == tasks[i].status \in {"finished", "cancelled"}

\* RosettaApiServer::new: the listener is bound, the state is Unstarted
Init ==
    /\ now = 0
    /\ serverState = "Unstarted"
    /\ guard = 0
    /\ opts = DefaultOpt
    /\ runPc = [c \in RunCallers |-> "idle"]
    /\ runRes = [c \in RunCallers |-> "none"]
    /\ runObs = [c \in RunCallers |-> "none"]
    /\ served = 0
    /\ wdStarts = 0
    /\ stopped = FALSE
    /\ stopPc = [s \in StopCallers |-> "idle"]
    /\ listener = "bound"
    /\ lstStopReq = FALSE
    /\ wd = "none"
    /\ wdSkip = FALSE
    /\ wdTask = 0
    /\ lastHeartbeat = 0
    /\ tasks = [i \in Instances |-> NoTask]
    /\ nTasks = 0
    /\ SYNC_ERR_COUNTER = 0
    /\ OUT_OF_SYNC_TIME = 0
    /\ OUT_OF_SYNC_TIME_HIST = 0
    /\ SYNC_THREAD_RESTARTS = 0
    /\ consecutiveErrors = 0
    /\ rosetta_api_status_total = [k \in StatusKeys |-> 0]
    /\ httpCalls = 0
    /\ httpResult = "none"
    /\ httpResponse = "none"

\* ---- RosettaApiServer::run ------------------------------------------------

\* run() is called and waits at self.server.lock().await; the callers are
\* numbered in the order of their calls
RunCall(c) ==
    /\ runPc[c] = "idle"
    /\ c > 1 => runPc[c - 1] # "idle"
    /\ runPc' = [runPc EXCEPT ![c] = "waiting"]
    /\ UNCHANGED httpVars
    /\ UNCHANGED <<now, serverState, guard, opts, runRes, runObs, stopVars,
                   listenerVars, wdVars, taskVars, metricVars>>

\* self.server.lock().await returns: the tokio Mutex is free and hands the
\* guard out in the order of the lock() calls
Acquire(c) ==
    /\ runPc[c] = "waiting"
    /\ guard = 0
    /\ c > 1 => runPc[c - 1] # "waiting"

\* RunStarted with the arm falling through to the start of a second watchdog
RunStartedStartsWatchdog(c) ==
    /\ Acquire(c)
    /\ serverState \in {"Started", "OfflineStarted"}
    /\ serverState' = serverState
    /\ runObs' = [runObs EXCEPT ![c] = serverState]
    /\ runPc' = [runPc EXCEPT ![c] = "done"]
    /\ runRes' = [runRes EXCEPT ![c] = "ok"]
    /\ wd' = "running"
    /\ wdStarts' = wdStarts + 1
    /\ UNCHANGED httpVars
    /\ UNCHANGED <<now, guard, opts, stopVars, listenerVars, wdSkip, wdTask,
                   lastHeartbeat, taskVars, metricVars>>

\* match arms Started and OfflineStarted: the state taken out by replace() is
\* put back and run() returns Ok(())
RunStarted(c) ==
    /\ Acquire(c)
    /\ serverState \in {"Started", "OfflineStarted"}
    /\ serverState' = serverState
    /\ runObs' = [runObs EXCEPT ![c] = serverState]
    /\ runPc' = [runPc EXCEPT ![c] = "done"]
    /\ runRes' = [runRes EXCEPT ![c] = "ok"]
    /\ UNCHANGED httpVars
    /\ UNCHANGED <<now, guard, opts, stopVars, listenerVars, wdVars, taskVars,
                   metricVars>>

\* RunFailed with the arm giving the state back instead of returning the error
RunFailedReturnsOk(c) ==
    /\ Acquire(c)
    /\ serverState = "Failed"
    /\ serverState' = "Failed"
    /\ runObs' = [runObs EXCEPT ![c] = "Failed"]
    /\ runPc' = [runPc EXCEPT ![c] = "done"]
    /\ runRes' = [runRes EXCEPT ![c] = "ok"]
    /\ UNCHANGED httpVars
    /\ UNCHANGED <<now, guard, opts, stopVars, listenerVars, wdVars, taskVars,
                   metricVars>>

\* match arm Failed: early return of Err("run previously failed!"); the
\* Failed written by replace() stays
RunFailed(c) ==
    /\ Acquire(c)
    /\ serverState = "Failed"
    /\ serverState' = "Failed"
    /\ runObs' = [runObs EXCEPT ![c] = "Failed"]
    /\ runPc' = [runPc EXCEPT ![c] = "done"]
    /\ runRes' = [runRes EXCEPT ![c] = "already_failed"]
    /\ UNCHANGED httpVars
    /\ UNCHANGED <<now, guard, opts, stopVars, listenerVars, wdVars, taskVars,
                   metricVars>>

\* WatchdogThread::new(BLOCK_SYNC_TIMEOUT, on_restart_callback, skip) and
\* WatchdogThread::start(task_factory)
WatchdogStart ==
    /\ wd' = "running"
    /\ wdStarts' = wdStarts + 1
    /\ wdSkip' = skip_first_heartbeat_check
    /\ wdTask' = 0
    /\ lastHeartbeat' = now

\* RunOffline with the watchdog started as in the online arm
RunOfflineStartsWatchdog(c, o) ==
    /\ Acquire(c)
    /\ serverState = "Unstarted" /\ o.offline
    /\ serverState' = "Failed"
    /\ guard' = c
    /\ opts' = o
    /\ runObs' = [runObs EXCEPT ![c] = "Unstarted"]
    /\ WatchdogStart
    /\ listener' = "serving"
    /\ served' = served + 1
    /\ runPc' = [runPc EXCEPT ![c] = "serving"]
    /\ UNCHANGED httpVars
    /\ UNCHANGED <<now, runRes, stopVars, lstStopReq, taskVars, metricVars>>

\* match arm Unstarted(server) if offline: the listener future is awaited
\* while the guard is held and the mutex holds the placeholder Failed
RunOffline(c, o) ==
    /\ Acquire(c)
    /\ serverState = "Unstarted" /\ o.offline
    /\ serverState' = "Failed"
    /\ guard' = c
    /\ opts' = o
    /\ runObs' = [runObs EXCEPT ![c] = "Unstarted"]
    /\ listener' = "serving"
    /\ served' = served + 1
    /\ runPc' = [runPc EXCEPT ![c] = "serving"]
    /\ UNCHANGED httpVars
    /\ UNCHANGED <<now, runRes, stopVars, lstStopReq, wdVars, taskVars, metricVars>>

\* match arm Unstarted(server), online: the watchdog is started, then the
\* listener future is awaited
RunOnline(c, o) ==
    /\ Acquire(c)
    /\ serverState = "Unstarted" /\ ~o.offline
    /\ serverState' = "Failed"
    /\ guard' = c
    /\ opts' = o
    /\ runObs' = [runObs EXCEPT ![c] = "Unstarted"]
    /\ WatchdogStart
    /\ listener' = "serving"
    /\ served' = served + 1
    /\ runPc' = [runPc EXCEPT ![c] = "serving"]
    /\ UNCHANGED httpVars
    /\ UNCHANGED <<now, runRes, stopVars, lstStopReq, taskVars, metricVars>>

\* server.await? returned an error: run() returns it, the guard is dropped
RunListenerErr(c) ==
    /\ runPc[c] = "serving" /\ listener = "done_err"
    /\ guard' = 0
    /\ runPc' = [runPc EXCEPT ![c] = "done"]
    /\ runRes' = [runRes EXCEPT ![c] = "io_error"]
    /\ UNCHANGED httpVars
    /\ UNCHANGED <<now, serverState, opts, runObs, stopVars, listenerVars, wdVars,
                   taskVars, metricVars>>

\* RunOfflineDone with the arm yielding Started
RunOfflineDoneAsStarted(c) ==
    /\ runPc[c] = "serving" /\ listener = "done_ok" /\ opts.offline
    /\ serverState' = "Started"
    /\ guard' = 0
    /\ runPc' = [runPc EXCEPT ![c] = "done"]
    /\ runRes' = [runRes EXCEPT ![c] = "ok"]
    /\ UNCHANGED httpVars
    /\ UNCHANGED <<now, opts, runObs, stopVars, listenerVars, wdVars, taskVars,
                   metricVars>>

\* server.await? returned Ok in offline mode: the state becomes OfflineStarted
RunOfflineDone(c) ==
    /\ runPc[c] = "serving" /\ listener = "done_ok" /\ opts.offline
    /\ serverState' = "OfflineStarted"
    /\ guard' = 0
    /\ runPc' = [runPc EXCEPT ![c] = "done"]
    /\ runRes' = [runRes EXCEPT ![c] = "ok"]
    /\ UNCHANGED httpVars
    /\ UNCHANGED <<now, opts, runObs, stopVars, listenerVars, wdVars, taskVars,
                   metricVars>>

\* server.await? returned Ok in online mode: watchdog_thread.stop() is called
\* and awaited
RunWatchdogStop(c) ==
    /\ runPc[c] = "serving" /\ listener = "done_ok" /\ ~opts.offline
    /\ wd' = "stopping"
    /\ runPc' = [runPc EXCEPT ![c] = "wd_stop"]
    /\ UNCHANGED httpVars
    /\ UNCHANGED <<now, serverState, guard, opts, runRes, runObs, stopVars,
                   listenerVars, wdSkip, wdTask, lastHeartbeat, wdStarts, taskVars,
                   metricVars>>

\* RunOnlineDone with watchdog_thread.stop() called but not awaited
RunOnlineDoneNotAwaited(c) ==
    /\ runPc[c] = "wd_stop"
    /\ serverState' = "Started"
    /\ guard' = 0
    /\ runPc' = [runPc EXCEPT ![c] = "done"]
    /\ runRes' = [runRes EXCEPT ![c] = "ok"]
    /\ UNCHANGED httpVars
    /\ UNCHANGED <<now, opts, runObs, stopVars, listenerVars, wdVars, taskVars,
                   metricVars>>

\* watchdog_thread.stop().await returned: the state becomes Started
RunOnlineDone(c) ==
    /\ runPc[c] = "wd_stop" /\ wd = "stopped"
    /\ serverState' = "Started"
    /\ guard' = 0
    /\ runPc' = [runPc EXCEPT ![c] = "done"]
    /\ runRes' = [runRes EXCEPT ![c] = "ok"]
    /\ UNCHANGED httpVars
    /\ UNCHANGED <<now, opts, runObs, stopVars, listenerVars, wdVars, taskVars,
                   metricVars>>

\* ---- RosettaApiServer::stop -----------------------------------------------

\* StopStore with the flag flipped instead of set
StopStoreToggles(s) ==
    /\ stopPc[s] = "idle"
    /\ s > 1 => stopPc[s - 1] # "idle"
    /\ stopped' = ~stopped
    /\ stopPc' = [stopPc EXCEPT ![s] = "stored"]
    /\ UNCHANGED httpVars
    /\ UNCHANGED <<now, lifecycleVars, listenerVars, wdVars, taskVars, metricVars>>

\* self.stopped.store(true, SeqCst); the callers are numbered in the order of
\* their calls
StopStore(s) ==
    /\ stopPc[s] = "idle"
    /\ s > 1 => stopPc[s - 1] # "idle"
    /\ stopped' = TRUE
    /\ stopPc' = [stopPc EXCEPT ![s] = "stored"]
    /\ UNCHANGED httpVars
    /\ UNCHANGED <<now, lifecycleVars, listenerVars, wdVars, taskVars, metricVars>>

\* StopSend with the stop command never sent to the listener
StopSendNothing(s) ==
    /\ stopPc[s] = "stored"
    /\ stopPc' = [stopPc EXCEPT ![s] = "awaiting"]
    /\ UNCHANGED httpVars
    /\ UNCHANGED <<now, lifecycleVars, stopped, listenerVars, wdVars, taskVars,
                   metricVars>>

\* self.server_handle.stop(true): the stop command is sent to the listener
StopSend(s) ==
    /\ stopPc[s] = "stored"
    /\ lstStopReq' = TRUE
    /\ stopPc' = [stopPc EXCEPT ![s] = "awaiting"]
    /\ UNCHANGED httpVars
    /\ UNCHANGED <<now, lifecycleVars, stopped, listener, served, wdVars, taskVars,
                   metricVars>>

\* .await of the stop command: answered once the listener has completed
StopReturn(s) ==
    /\ stopPc[s] = "awaiting" /\ ListenerDone
    /\ stopPc' = [stopPc EXCEPT ![s] = "done"]
    /\ UNCHANGED httpVars
    /\ UNCHANGED <<now, lifecycleVars, stopped, listenerVars, wdVars, taskVars,
                   metricVars>>

\* ---- the listener (actix Server future) -----------------------------------

\* the served listener has taken a stop command and drained: the Server
\* future resolves to Ok(())
ListenerDrained ==
    /\ listener = "serving" /\ lstStopReq
    /\ listener' = "done_ok"
    /\ UNCHANGED httpVars
    /\ UNCHANGED <<now, lifecycleVars, stopVars, lstStopReq, served, wdVars,
                   taskVars, metricVars>>

\* the Server future resolves to an io::Error
ListenerFail ==
    /\ listener = "serving"
    /\ listener' = "done_err"
    /\ UNCHANGED httpVars
    /\ UNCHANGED <<now, lifecycleVars, stopVars, lstStopReq, served, wdVars,
                   taskVars, metricVars>>

\* ---- start_sync_thread: the SyncTask ---------------------------------------

\* tokio::task::spawn(async move { ... }): a new instance with its interval
\* (first tick due at once) and synced_at = Instant::now()
StartSyncThread(i) ==
    tasks' = [tasks EXCEPT ![i] =
                 [pc |-> "check", status |-> "live", res |-> "none",
                  synced_at |-> now, nextTick |-> now, calls |-> 0, mets |-> 0,
                  hbs |-> 0, cleanups |-> 0]]

\* while !stopped.load(Relaxed): into the loop body, or past the loop where
\* ledger.cleanup() is invoked
TaskCheck(i) ==
    /\ Live(i) /\ tasks[i].pc = "check"
    /\ tasks' = [tasks EXCEPT ![i] =
                    IF stopped
                    THEN [@ EXCEPT !.pc = "cleanup", !.cleanups = @ + 1]
                    ELSE [@ EXCEPT !.pc = "tick"]]
    /\ UNCHANGED httpVars
    /\ UNCHANGED <<now, lifecycleVars, stopVars, listenerVars, wdVars, nTasks,
                   metricVars>>

\* interval.tick().await completes when the tick is due (missed ticks fire in
\* a burst), then ledger.sync_blocks(stopped) is invoked
TaskTick(i) ==
    /\ Live(i) /\ tasks[i].pc = "tick"
    /\ now >= tasks[i].nextTick
    /\ tasks[i].calls < MaxIter
    /\ tasks' = [tasks EXCEPT ![i] =
                    [@ EXCEPT !.pc = "sync", !.calls = @ + 1,
                              !.nextTick = @ + BLOCK_SYNC_INTERVAL]]
    /\ UNCHANGED httpVars
    /\ UNCHANGED <<now, lifecycleVars, stopVars, listenerVars, wdVars, nTasks,
                   metricVars>>

\* ledger.sync_blocks(..).await returns Ok or Err
TaskSyncReturn(i, r) ==
    /\ Live(i) /\ tasks[i].pc = "sync"
    /\ tasks' = [tasks EXCEPT ![i] = [@ EXCEPT !.pc = "metrics", !.res = r]]
    /\ UNCHANGED httpVars
    /\ UNCHANGED <<now, lifecycleVars, stopVars, listenerVars, wdVars, nTasks,
                   metricVars>>

\* TaskMetrics with the heartbeat emitted on the success branch only
TaskMetricsHeartbeatOnSuccess(i) ==
    /\ Live(i) /\ tasks[i].pc = "metrics"
    /\ OUT_OF_SYNC_TIME' = now - tasks[i].synced_at
    /\ IF tasks[i].res = "err"
       THEN /\ SYNC_ERR_COUNTER' = SYNC_ERR_COUNTER + 1
            /\ OUT_OF_SYNC_TIME_HIST' = OUT_OF_SYNC_TIME_HIST
            /\ consecutiveErrors' = consecutiveErrors + 1
            /\ tasks' = [tasks EXCEPT ![i] =
                            [@ EXCEPT !.pc = "exit_check", !.mets = @ + 1]]
       ELSE /\ SYNC_ERR_COUNTER' = SYNC_ERR_COUNTER
            /\ OUT_OF_SYNC_TIME_HIST' = OUT_OF_SYNC_TIME_HIST + 1
            /\ consecutiveErrors' = 0
            /\ tasks' = [tasks EXCEPT ![i] =
                            [@ EXCEPT !.pc = "heartbeat", !.mets = @ + 1,
                                      !.synced_at = now]]
    /\ UNCHANGED httpVars
    /\ UNCHANGED <<now, lifecycleVars, stopVars, listenerVars, wdVars, nTasks,
                   SYNC_THREAD_RESTARTS>>

\* the two branches of `if let Err(err) = ...`: the error branch counts the
\* error and sets the gauge; the success branch sets the gauge, observes the
\* histogram and advances synced_at
TaskMetrics(i) ==
    /\ Live(i) /\ tasks[i].pc = "metrics"
    /\ OUT_OF_SYNC_TIME' = now - tasks[i].synced_at
    /\ IF tasks[i].res = "err"
       THEN /\ SYNC_ERR_COUNTER' = SYNC_ERR_COUNTER + 1
            /\ OUT_OF_SYNC_TIME_HIST' = OUT_OF_SYNC_TIME_HIST
            /\ consecutiveErrors' = consecutiveErrors + 1
            /\ tasks' = [tasks EXCEPT ![i] =
                            [@ EXCEPT !.pc = "heartbeat", !.mets = @ + 1]]
       ELSE /\ SYNC_ERR_COUNTER' = SYNC_ERR_COUNTER
            /\ OUT_OF_SYNC_TIME_HIST' = OUT_OF_SYNC_TIME_HIST + 1
            /\ consecutiveErrors' = 0
            /\ tasks' = [tasks EXCEPT ![i] =
                            [@ EXCEPT !.pc = "heartbeat", !.mets = @ + 1,
                                      !.synced_at = now]]
    /\ UNCHANGED httpVars
    /\ UNCHANGED <<now, lifecycleVars, stopVars, listenerVars, wdVars, nTasks,
                   SYNC_THREAD_RESTARTS>>

\* the heartbeat emitter handed out by the watchdog: the staleness timer is
\* reset and the first interval is over
HeartbeatEmitter ==
    /\ lastHeartbeat' = now
    /\ wdSkip' = FALSE

\* TaskHeartbeat with heartbeat_fn() called after a successful sync only
TaskHeartbeatOnSuccess(i) ==
    /\ Live(i) /\ tasks[i].pc = "heartbeat"
    /\ IF tasks[i].res = "ok"
       THEN /\ HeartbeatEmitter
            /\ tasks' = [tasks EXCEPT ![i] =
                            [@ EXCEPT !.pc = "exit_check", !.hbs = @ + 1]]
       ELSE /\ UNCHANGED <<lastHeartbeat, wdSkip>>
            /\ tasks' = [tasks EXCEPT ![i] = [@ EXCEPT !.pc = "exit_check"]]
    /\ UNCHANGED httpVars
    /\ UNCHANGED <<now, lifecycleVars, stopVars, listenerVars, wd, wdTask, wdStarts,
                   nTasks, metricVars>>

\* heartbeat_fn()
TaskHeartbeat(i) ==
    /\ Live(i) /\ tasks[i].pc = "heartbeat"
    /\ HeartbeatEmitter
    /\ tasks' = [tasks EXCEPT ![i] = [@ EXCEPT !.pc = "exit_check", !.hbs = @ + 1]]
    /\ UNCHANGED httpVars
    /\ UNCHANGED <<now, lifecycleVars, stopVars, listenerVars, wd, wdTask, wdStarts,
                   nTasks, metricVars>>

\* TaskExitCheck with the loop going on without reading the stop flag again
TaskExitCheckLoopsToTick(i) ==
    /\ Live(i) /\ tasks[i].pc = "exit_check"
    /\ IF opts.exit_on_sync
       THEN /\ lstStopReq' = TRUE
            /\ tasks' = [tasks EXCEPT ![i] = [@ EXCEPT !.pc = "stop_listener"]]
       ELSE /\ lstStopReq' = lstStopReq
            /\ tasks' = [tasks EXCEPT ![i] = [@ EXCEPT !.pc = "tick", !.res = "none"]]
    /\ UNCHANGED httpVars
    /\ UNCHANGED <<now, lifecycleVars, stopVars, listener, served, wdVars, nTasks,
                   metricVars>>

\* if exit_on_sync { server_handle.stop(true) ... }: the stop command is sent
\* to the listener; otherwise the iteration is over and the loop condition is
\* next
TaskExitCheck(i) ==
    /\ Live(i) /\ tasks[i].pc = "exit_check"
    /\ IF opts.exit_on_sync
       THEN /\ lstStopReq' = TRUE
            /\ tasks' = [tasks EXCEPT ![i] = [@ EXCEPT !.pc = "stop_listener"]]
       ELSE /\ lstStopReq' = lstStopReq
            /\ tasks' = [tasks EXCEPT ![i] = [@ EXCEPT !.pc = "check", !.res = "none"]]
    /\ UNCHANGED httpVars
    /\ UNCHANGED <<now, lifecycleVars, stopVars, listener, served, wdVars, nTasks,
                   metricVars>>

\* TaskBreak without the break: the loop goes on
TaskBreakMissing(i) ==
    /\ Live(i) /\ tasks[i].pc = "stop_listener"
    /\ ListenerDone
    /\ tasks' = [tasks EXCEPT ![i] = [@ EXCEPT !.pc = "check"]]
    /\ UNCHANGED httpVars
    /\ UNCHANGED <<now, lifecycleVars, stopVars, listenerVars, wdVars, nTasks,
                   metricVars>>

\* server_handle.stop(true).await is answered; break; ledger.cleanup() is
\* invoked
TaskBreak(i) ==
    /\ Live(i) /\ tasks[i].pc = "stop_listener"
    /\ ListenerDone
    /\ tasks' = [tasks EXCEPT ![i] = [@ EXCEPT !.pc = "cleanup", !.cleanups = @ + 1]]
    /\ UNCHANGED httpVars
    /\ UNCHANGED <<now, lifecycleVars, stopVars, listenerVars, wdVars, nTasks,
                   metricVars>>

\* ledger.cleanup().await returns and the task ends (its locals are dropped)
TaskFinish(i) ==
    /\ Live(i) /\ tasks[i].pc = "cleanup"
    /\ tasks' = [tasks EXCEPT ![i] =
                    [@ EXCEPT !.pc = "finished", !.status = "finished",
                              !.synced_at = 0, !.nextTick = 0]]
    /\ UNCHANGED httpVars
    /\ UNCHANGED <<now, lifecycleVars, stopVars, listenerVars, wdVars, nTasks,
                   metricVars>>

\* ---- the watchdog --------------------------------------------------------

\* on_restart_callback counting nothing
on_restart_callback_noop == SYNC_THREAD_RESTARTS

\* on_restart_callback: SYNC_THREAD_RESTARTS.inc()
on_restart_callback == SYNC_THREAD_RESTARTS + 1

\* the supervising loop obtains the running SyncTask from the task factory
\* (the closure given to start(), which calls start_sync_thread)
WatchdogSpawn ==
    /\ wd = "running" /\ wdTask = 0
    /\ nTasks < MaxInst
    /\ nTasks' = nTasks + 1
    /\ wdTask' = nTasks + 1
    /\ StartSyncThread(nTasks + 1)
    /\ lastHeartbeat' = now
    /\ UNCHANGED httpVars
    /\ UNCHANGED <<now, lifecycleVars, stopVars, listenerVars, wd, wdSkip, wdStarts,
                   metricVars>>

Stale == wd = "running" /\ wdTask # 0 /\ now - lastHeartbeat >= BLOCK_SYNC_TIMEOUT

\* no heartbeat within the timeout, first interval: the check is suppressed
WatchdogSkip ==
    /\ Stale /\ wdSkip
    /\ wdSkip' = FALSE
    /\ lastHeartbeat' = now
    /\ UNCHANGED httpVars
    /\ UNCHANGED <<now, lifecycleVars, stopVars, listenerVars, wd, wdTask, wdStarts,
                   taskVars, metricVars>>

\* WatchdogRestart with the stalled task left running
WatchdogRestartWithoutCancel ==
    /\ Stale /\ ~wdSkip
    /\ SYNC_THREAD_RESTARTS' = on_restart_callback
    /\ wdTask' = 0
    /\ UNCHANGED httpVars
    /\ UNCHANGED <<now, lifecycleVars, stopVars, listenerVars, wd, wdSkip,
                   lastHeartbeat, wdStarts, taskVars, SYNC_ERR_COUNTER,
                   OUT_OF_SYNC_TIME, OUT_OF_SYNC_TIME_HIST, consecutiveErrors>>

\* no heartbeat within the timeout: the current task is cancelled and the
\* restart callback invoked; the loop then respawns through the factory
WatchdogRestart ==
    /\ Stale /\ ~wdSkip
    /\ tasks' = [tasks EXCEPT ![wdTask] =
                    IF @.status = "live"
                    THEN [@ EXCEPT !.status = "cancelled", !.synced_at = 0,
                                   !.nextTick = 0]
                    ELSE @]
    /\ SYNC_THREAD_RESTARTS' = on_restart_callback
    /\ wdTask' = 0
    /\ UNCHANGED httpVars
    /\ UNCHANGED <<now, lifecycleVars, stopVars, listenerVars, wd, wdSkip,
                   lastHeartbeat, wdStarts, nTasks, SYNC_ERR_COUNTER, OUT_OF_SYNC_TIME,
                   OUT_OF_SYNC_TIME_HIST, consecutiveErrors>>

\* stop(): the supervising loop has ended and the supervised task has
\* terminated
WatchdogStopped ==
    /\ wd = "stopping"
    /\ wdTask # 0 => Terminated(wdTask)
    /\ wd' = "stopped"
    /\ UNCHANGED httpVars
    /\ UNCHANGED <<now, lifecycleVars, stopVars, listenerVars, wdSkip, wdTask,
                   lastHeartbeat, wdStarts, taskVars, metricVars>>

\* ---- the clock -----------------------------------------------------------

\* the timers armed at this moment: the interval of every running SyncTask
\* and the staleness timeout of the watchdog
Deadlines ==
    {tasks[i].nextTick :
        i \in {j \in Instances : Live(j) /\ tasks[j].pc \in {"tick", "sync"}}}
    \cup (IF wd = "running" /\ wdTask # 0
          THEN {lastHeartbeat + BLOCK_SYNC_TIMEOUT} ELSE {})

\* time passes up to the next timer that expires: every other wait
\* (sync_blocks, the drain of the listener, cleanup, a lock) ends at once or
\* lasts until then; the watchdog acts as soon as its timeout expires, and
\* the code of a SyncTask between two awaits takes no time
Tick ==
    /\ ~Stale
    /\ \A i \in Instances :
          Live(i) => tasks[i].pc \notin {"check", "metrics", "heartbeat", "exit_check"}
    /\ \E d \in Deadlines : d > now
    /\ now' = CHOOSE d \in Deadlines :
                  d > now /\ \A e \in Deadlines : e > now => d <= e
    /\ now' <= MaxTime
    /\ UNCHANGED httpVars
    /\ UNCHANGED <<lifecycleVars, stopVars, listenerVars, wdVars, taskVars, metricVars>>

Next ==
    \/ \E c \in RunCallers : RunCall(c)
    \/ \E c \in RunCallers : RunStarted(c)
    \/ \E c \in RunCallers : RunFailed(c)
    \/ \E c \in RunCallers, o \in RosettaApiServerOpt : RunOffline(c, o)
    \/ \E c \in RunCallers, o \in RosettaApiServerOpt : RunOnline(c, o)
    \/ \E c \in RunCallers : RunListenerErr(c)
    \/ \E c \in RunCallers : RunOfflineDone(c)
    \/ \E c \in RunCallers : RunWatchdogStop(c)
    \/ \E c \in RunCallers : RunOnlineDone(c)
    \/ \E s \in StopCallers : StopStore(s)
    \/ \E s \in StopCallers : StopSend(s)
    \/ \E s \in StopCallers : StopReturn(s)
    \/ ListenerDrained
    \/ ListenerFail
    \/ WatchdogSpawn
    \/ WatchdogSkip
    \/ WatchdogRestart
    \/ WatchdogStopped
    \/ \E i \in Instances : TaskCheck(i)
    \/ \E i \in Instances : TaskTick(i)
    \/ \E i \in Instances, r \in {"ok", "err"} : TaskSyncReturn(i, r)
    \/ \E i \in Instances : TaskMetrics(i)
    \/ \E i \in Instances : TaskHeartbeat(i)
    \/ \E i \in Instances : TaskExitCheck(i)
    \/ \E i \in Instances : TaskBreak(i)
    \/ \E i \in Instances : TaskFinish(i)
    \/ Tick

Spec == Init /\ [][Next]_vars

\* ---- scheduling ------------------------------------------------------------

\* a run() call that has been made goes on whenever it can: the tokio runtime
\* polls a future that is ready
RunProgress(c) ==
    \/ RunStarted(c)
    \/ RunFailed(c)
    \/ \E o \in RosettaApiServerOpt : RunOffline(c, o) \/ RunOnline(c, o)
    \/ RunListenerErr(c)
    \/ RunOfflineDone(c)
    \/ RunWatchdogStop(c)
    \/ RunOnlineDone(c)

\* a stop() call that has stored the flag goes on
StopProgress(s) == StopSend(s) \/ StopReturn(s)

\* a spawned SyncTask goes on; sync_blocks and cleanup() return
TaskProgress(i) ==
    \/ TaskCheck(i)
    \/ TaskTick(i)
    \/ \E r \in {"ok", "err"} : TaskSyncReturn(i, r)
    \/ TaskMetrics(i)
    \/ TaskHeartbeat(i)
    \/ TaskExitCheck(i)
    \/ TaskBreak(i)
    \/ TaskFinish(i)

\* the supervising loop of the watchdog goes on
WatchdogProgress ==
    WatchdogSpawn \/ WatchdogSkip \/ WatchdogRestart \/ WatchdogStopped

\* every started activity is scheduled, a listener told to stop drains, and
\* time passes; whether run() and stop() are called at all and whether the
\* listener fails is left open
Fairness ==
    /\ \A c \in RunCallers : WF_vars(RunProgress(c))
    /\ \A s \in StopCallers : WF_vars(StopProgress(s))
    /\ \A i \in Instances : WF_vars(TaskProgress(i))
    /\ WF_vars(WatchdogProgress)
    /\ WF_vars(ListenerDrained)
    /\ WF_vars(Tick)

FairSpec == Init /\ [][Next]_vars /\ Fairness

\* ---- to_rosetta_response: results of the handlers into HTTP responses -----

\* the values S: serde::Serialize a handler returns (a JSON object {"a": n});
\* serializes tells whether the Serialize implementation succeeds
Values == [a : 1..2, serializes : BOOLEAN]

\* the ApiError values of the handlers
ApiErrors == [code : ErrorCodes, retriable : BOOLEAN, serializes : BOOLEAN]

\* Result<S, ApiError>
Ok(x) == [ok |-> TRUE, value |-> x]
Err(e) == [ok |-> FALSE, error |-> e]
Results == {Ok(x) : x \in Values} \cup {Err(e) : e \in ApiErrors}

\* errors::convert_to_error: the error envelope of the protocol
convert_to_error(api_err) ==
    [code |-> api_err.code, message |-> "error", retriable |-> api_err.retriable,
     serializes |-> api_err.serializes]

\* serde_json::to_string of a value and of an error envelope
to_string(x) ==
    IF x.serializes
    THEN [ok |-> TRUE, resp |-> "{\"a\":" \o ToString(x.a) \o "}"]
    ELSE [ok |-> FALSE, resp |-> ""]
to_string_error(converted) ==
    IF converted.serializes
    THEN [ok |-> TRUE,
          resp |-> "{\"code\":" \o ToString(converted.code)
                   \o ",\"message\":\"" \o converted.message \o "\",\"retriable\":"
                   \o (IF converted.retriable THEN "true" ELSE "false") \o "}"]
    ELSE [ok |-> FALSE, resp |-> ""]

\* Error::serialization_error_json_str(): the fixed payload
serialization_error_json_str == "{\"message\":\"serialization error\"}"

\* .with_label_values(&[key]).inc()
inc(total, key) == [total EXCEPT ![key] = @ + 1]

\* HttpResponse::Ok() and HttpResponse::InternalServerError() with the body
HttpResponse(status, resp) ==
    [status |-> status, content_type |-> "application/json", body |-> resp]

\* fn internal_error_response: counts under "700" and answers 500
internal_error_response(total, resp) ==
    [total |-> inc(total, "700"), response |-> HttpResponse(500, resp)]

\* to_rosetta_response with the Ok arm built by internal_error_response too
to_rosetta_response_ok_counted_twice(total, result) ==
    IF result.ok
    THEN LET s == to_string(result.value) IN
         IF s.ok
         THEN [total |-> inc(inc(total, "200"), "700"),
               response |-> HttpResponse(200, s.resp)]
         ELSE internal_error_response(total, serialization_error_json_str)
    ELSE LET converted == convert_to_error(result.error)
             s == to_string_error(converted) IN
         IF s.ok
         THEN internal_error_response(inc(total, ToString(converted.code)), s.resp)
         ELSE internal_error_response(total, serialization_error_json_str)

\* fn to_rosetta_response: the counters after the call and the response
to_rosetta_response(total, result) ==
    IF result.ok
    THEN LET s == to_string(result.value) IN
         IF s.ok
         THEN [total |-> inc(total, "200"), response |-> HttpResponse(200, s.resp)]
         ELSE internal_error_response(total, serialization_error_json_str)
    ELSE LET converted == convert_to_error(result.error)
             s == to_string_error(converted) IN
         IF s.ok
         THEN internal_error_response(inc(total, ToString(converted.code)), s.resp)
         ELSE internal_error_response(total, serialization_error_json_str)

\* an endpoint handler ends with to_rosetta_response(res)
Handler(result) ==
    /\ httpCalls < MaxCalls
    /\ httpCalls' = httpCalls + 1
    /\ httpResult' = result
    /\ LET r == to_rosetta_response(rosetta_api_status_total, result) IN
          /\ rosetta_api_status_total' = r.total
          /\ httpResponse' = r.response
    /\ UNCHANGED <<now, lifecycleVars, stopVars, listenerVars, wdVars, taskVars,
                   metricVars>>

NextTranslate == \E result \in Results : Handler(result)

SpecTranslate == Init /\ [][NextTranslate]_vars

\* ---- properties ----------------------------------------------------------

Terminal == {"Started", "OfflineStarted", "Failed"}

\* the run() call that took Unstarted out of the mutex, and the other calls
\* that have got the guard
Winner(c) == runObs[c] = "Unstarted"
Loser(c) == runObs[c] \in Terminal

\* C1 (as amended): of two concurrent run() calls on an Unstarted server one
\* takes Unstarted; the listener is served exactly once and one watchdog at
\* most is started, every SyncTask beyond the first being a watchdog restart;
\* the other call gets the guard only after the first transition has finished,
\* finds its final state and returns Ok for Started or OfflineStarted and the
\* "run previously failed" error for Failed, starting nothing
C1_ConcurrentRunServesOnce ==
    /\ served <= 1
    /\ wdStarts <= 1
    /\ nTasks <= wdStarts * (1 + SYNC_THREAD_RESTARTS)
    /\ Cardinality({c \in RunCallers : Winner(c)}) <= 1
    /\ (\E c \in RunCallers : runObs[c] # "none") => served = 1
    /\ \A c \in RunCallers :
          Loser(c) =>
             /\ runPc[c] = "done"
             /\ runObs[c] = serverState
             /\ \E d \in RunCallers : Winner(d) /\ runPc[d] = "done"
             /\ runRes[c] = (IF runObs[c] = "Failed" THEN "already_failed" ELSE "ok")

\* both calls have returned, the second having found Started
C1_Witness ==
    /\ Winner(1) /\ runRes[1] = "ok"
    /\ runObs[2] = "Started" /\ runRes[2] = "ok"
    /\ served = 1 /\ wdStarts = 1 /\ nTasks >= 1

\* C1 (as stated): the call that does not take Unstarted always finds Started
\* or OfflineStarted and returns Ok
C1_LoserAlwaysSucceeds ==
    \A c \in RunCallers :
        Loser(c) => runObs[c] \in {"Started", "OfflineStarted"} /\ runRes[c] = "ok"

\* a failed transition is over: the mutex is free and holds Failed
HasFailed == guard = 0 /\ serverState = "Failed"

\* a step in which run() call c gets the guard
Enters(c) == runPc[c] = "waiting" /\ runPc'[c] # "waiting"

\* C2: once a transition has failed the state stays Failed, and every run()
\* call that gets the guard afterwards returns the "run previously failed"
\* error and changes nothing else: no listener, watchdog or SyncTask is started
C2_FailedIsAbsorbing ==
    [][HasFailed =>
          /\ HasFailed'
          /\ served' = served /\ wdStarts' = wdStarts
          /\ \A c \in RunCallers :
                Enters(c) =>
                   /\ runRes'[c] = "already_failed"
                   /\ runPc'[c] = "done"
                   /\ UNCHANGED <<now, opts, stopVars, listenerVars, wdVars, taskVars,
                                  metricVars>>]_vars

\* a run() call has found Failed left by a failed transition of another call
C2_Witness ==
    /\ HasFailed
    /\ runRes[1] = "io_error"
    /\ runObs[2] = "Failed" /\ runRes[2] = "already_failed"

\* C3: the state leaves Unstarted only under the guard and ends as Started
\* (online run), OfflineStarted (offline run) or Failed; a free mutex holding
\* Started, OfflineStarted or Failed never changes and is never locked across
\* steps, and run() on Started or OfflineStarted returns Ok with no other effect
C3_StateTransitions ==
    [][/\ (guard = 0 /\ serverState \in Terminal) =>
             (guard' = 0 /\ serverState' = serverState)
       /\ (guard = 0 /\ guard' = 0) => serverState' = serverState
       /\ (guard = 0 /\ guard' # 0) => (serverState = "Unstarted" /\ serverState' = "Failed")
       /\ (guard # 0 /\ guard' # 0) => (guard' = guard /\ serverState' = serverState)
       /\ (guard # 0 /\ guard' = 0) =>
             \/ serverState' = "Failed"
             \/ serverState' = "OfflineStarted" /\ opts.offline
             \/ serverState' = "Started" /\ ~opts.offline
       /\ \A c \in RunCallers :
             (Enters(c) /\ serverState \in {"Started", "OfflineStarted"}) =>
                /\ runRes'[c] = "ok"
                /\ runPc'[c] = "done"
                /\ UNCHANGED <<now, serverState, guard, opts, stopVars, listenerVars,
                               wdVars, taskVars, metricVars>>]_vars

\* an offline run has ended in OfflineStarted and a later run() returned Ok
C3_Witness ==
    /\ guard = 0 /\ serverState = "OfflineStarted"
    /\ runObs[2] = "OfflineStarted" /\ runRes[2] = "ok"

\* a step of stop() call s
StopStep(s) == stopPc'[s] # stopPc[s]

\* C4: StopSignal is never set back; every stop() call that has sent its
\* command leaves StopSignal true and the listener asked to stop, whatever
\* run() has done so far; and a stop() call made when both already hold
\* changes nothing but its own position
C4_StopIdempotent ==
    /\ [](\A s \in StopCallers :
             (stopPc[s] # "idle" => stopped)
             /\ (stopPc[s] \in {"awaiting", "done"} => lstStopReq))
    /\ [][/\ stopped => stopped'
          /\ lstStopReq => lstStopReq'
          /\ \A s \in StopCallers :
                (StopStep(s) /\ stopped /\ lstStopReq) =>
                   UNCHANGED <<now, lifecycleVars, stopped, listenerVars, wdVars,
                               taskVars, metricVars>>]_vars

\* two stop() calls have returned, the first made before run() was called
C4_Witness ==
    /\ stopPc[1] = "done" /\ stopPc[2] = "done"
    /\ stopped /\ lstStopReq
    /\ serverState = "Started"
    /\ nTasks = 1 /\ tasks[1].calls = 0

\* C5 (as stated): whenever the listener has been asked to stop StopSignal is
\* true; the watchdog is stopped only once the listener has completed; and an
\* online run() has returned only once the watchdog stop has completed
C5_ShutdownOrdering ==
    /\ lstStopReq => stopped
    /\ wd \in {"stopping", "stopped"} => ListenerDone
    /\ \A c \in RunCallers :
          (Winner(c) /\ runPc[c] = "done" /\ ~opts.offline) => wd = "stopped"

\* C6: with exit_on_sync, a SyncTask whose sync_blocks call succeeded has made
\* that one call only and never returns to the loop; it emits one heartbeat,
\* then sends the stop command to the listener, and invokes cleanup() once
C6_ExitOnSync ==
    \A i \in Instances :
        (opts.exit_on_sync /\ tasks[i].res = "ok") =>
           /\ tasks[i].calls = 1
           /\ tasks[i].pc \in {"metrics", "heartbeat", "exit_check", "stop_listener",
                               "cleanup", "finished"}
           /\ tasks[i].hbs = (IF tasks[i].pc \in {"metrics", "heartbeat"} THEN 0 ELSE 1)
           /\ tasks[i].pc \in {"stop_listener", "cleanup", "finished"} => lstStopReq
           /\ tasks[i].cleanups = (IF tasks[i].pc \in {"cleanup", "finished"} THEN 1 ELSE 0)

\* an exit_on_sync SyncTask has finished after its successful iteration
C6_Witness ==
    /\ opts.exit_on_sync
    /\ tasks[1].res = "ok" /\ tasks[1].status = "finished"
    /\ tasks[1].calls = 1 /\ tasks[1].hbs = 1 /\ tasks[1].cleanups = 1

\* C7 (as stated): a SyncTask whose last sync_blocks call failed neither sends
\* the stop command nor leaves its loop by break: it goes back to the loop
\* condition
C7_FailedIterationNeverStops ==
    \A i \in Instances :
        tasks[i].res = "err" =>
           tasks[i].pc \notin {"stop_listener", "cleanup", "finished"}

\* C8: in every SyncTask the metrics are updated once per returned sync_blocks
\* call and the heartbeat is emitted once per iteration, after the metrics
\* update and before the exit_on_sync check, whether the call failed or not
C8_OneHeartbeatPerIteration ==
    \A i \in Instances :
        tasks[i].status # "none" =>
           /\ tasks[i].mets =
                 (IF tasks[i].pc \in {"sync", "metrics"}
                  THEN tasks[i].calls - 1 ELSE tasks[i].calls)
           /\ tasks[i].hbs =
                 (IF tasks[i].pc \in {"sync", "metrics", "heartbeat"}
                  THEN tasks[i].calls - 1 ELSE tasks[i].calls)

\* the second iteration of a SyncTask failed and has emitted its heartbeat
C8_Witness ==
    /\ tasks[1].pc = "exit_check" /\ tasks[1].res = "err"
    /\ tasks[1].calls = 2 /\ tasks[1].hbs = 2

\* a step in which some SyncTask emits a heartbeat
HeartbeatStep == \E i \in Instances : tasks'[i].hbs = tasks[i].hbs + 1

MetricsStep(i) == tasks'[i].mets = tasks[i].mets + 1

\* C10 (as stated): the sync-error counter changes only in the metrics update
\* of a failed iteration, by exactly 1, and the "seconds since last success"
\* gauge takes a smaller value only in an iteration that follows a successful
\* one
C10_ErrorCounterAndGauge ==
    [][/\ \A i \in Instances :
             MetricsStep(i) =>
                SYNC_ERR_COUNTER' =
                   SYNC_ERR_COUNTER + (IF tasks[i].res = "err" THEN 1 ELSE 0)
       /\ (\A i \in Instances : ~MetricsStep(i)) => SYNC_ERR_COUNTER' = SYNC_ERR_COUNTER
       /\ OUT_OF_SYNC_TIME' < OUT_OF_SYNC_TIME => consecutiveErrors = 0]_vars

\* a step that is one call of to_rosetta_response
TranslateStep == httpCalls' = httpCalls + 1

\* C11: to_rosetta_response(Ok(v)) with v serializable answers 200 with the
\* serialized v as body ({"a":1} for the object a = 1), adds exactly 1 to the
\* counter labelled "200" and changes no other status counter
C11_OkYields200 ==
    [][(TranslateStep /\ httpResult'.ok /\ httpResult'.value.serializes) =>
          /\ httpResponse'.status = 200
          /\ httpResponse'.body = to_string(httpResult'.value).resp
          /\ httpResult'.value.a = 1 => httpResponse'.body = "{\"a\":1}"
          /\ rosetta_api_status_total'["200"] = rosetta_api_status_total["200"] + 1
          /\ \A k \in StatusKeys \ {"200"} :
                rosetta_api_status_total'[k] = rosetta_api_status_total[k]]_vars

\* a call with Ok({"a":1}) has been answered
C11_Witness ==
    /\ httpCalls = 1
    /\ httpResult = Ok([a |-> 1, serializes |-> TRUE])
    /\ httpResponse.status = 200 /\ httpResponse.body = "{\"a\":1}"
    /\ rosetta_api_status_total["200"] = 1

\* C12 (as stated, for an envelope that serializes): to_rosetta_response(Err(e))
\* answers 500 with the serialized envelope holding the code of e as body, and
\* the counter labelled with that code rises by exactly 1
C12_ErrYields500 ==
    [][(TranslateStep /\ ~httpResult'.ok /\ httpResult'.error.serializes) =>
          LET key == ToString(httpResult'.error.code) IN
          /\ httpResponse'.status = 500
          /\ httpResponse'.body = to_string_error(convert_to_error(httpResult'.error)).resp
          /\ rosetta_api_status_total'[key] = rosetta_api_status_total[key] + 1]_vars

RECURSIVE SumOver(_, _)
SumOver(keys, total) ==
    IF keys = {} THEN 0
    ELSE LET k == CHOOSE x \in keys : TRUE IN total[k] + SumOver(keys \ {k}, total)

\* C13 (as stated): a call with Err(e) whose envelope serializes leaves the
\* counter labelled "700" unchanged, and every call adds exactly 1 to the sum
\* of all status counters
C13_SentinelOnlyOnSerializationFailure ==
    [][TranslateStep =>
          /\ (~httpResult'.ok /\ httpResult'.error.serializes) =>
                rosetta_api_status_total'["700"] = rosetta_api_status_total["700"]
          /\ SumOver(StatusKeys, rosetta_api_status_total') =
                SumOver(StatusKeys, rosetta_api_status_total) + 1]_vars

\* C14: once run() has taken Unstarted with offline = true, no watchdog and no
\* SyncTask exists at any time: no sync_blocks call, no cleanup(), no
\* heartbeat, the metrics of the sync loop and the restart counter untouched;
\* and when the listener has completed without error the run() call returns
\* Ok with the state OfflineStarted
C14_OfflineStartsNothing ==
    (opts.offline /\ \E c \in RunCallers : Winner(c)) =>
       /\ wd = "none" /\ wdStarts = 0 /\ wdTask = 0 /\ lastHeartbeat = 0
       /\ nTasks = 0 /\ \A i \in Instances : tasks[i] = NoTask
       /\ SYNC_THREAD_RESTARTS = 0 /\ SYNC_ERR_COUNTER = 0
       /\ OUT_OF_SYNC_TIME = 0 /\ OUT_OF_SYNC_TIME_HIST = 0
       /\ \A c \in RunCallers :
             (Winner(c) /\ runPc[c] = "done") =>
                IF listener = "done_ok"
                THEN serverState = "OfflineStarted" /\ runRes[c] = "ok"
                ELSE serverState = "Failed" /\ runRes[c] = "io_error"

\* an offline run() was stopped by stop() and has returned
C14_Witness ==
    /\ opts.offline
    /\ serverState = "OfflineStarted"
    /\ \E c \in RunCallers : Winner(c) /\ runPc[c] = "done" /\ runRes[c] = "ok"
    /\ stopped /\ listener = "done_ok"

\* C15: whenever the state is Started the watchdog loop has ended and no
\* SyncTask instance is live, and from then on no step invokes sync_blocks or
\* cleanup(), emits a heartbeat, restarts or spawns a task or updates a metric
\* of the sync loop
C15_NothingSurvivesStarted ==
    /\ [](serverState = "Started" =>
             wd = "stopped" /\ \A i \in Instances : ~Live(i))
    /\ [][serverState = "Started" =>
             UNCHANGED <<wdVars, taskVars, metricVars>>]_vars

\* an online run() has returned after its SyncTask ran cleanup() and ended
C15_Witness ==
    /\ serverState = "Started"
    /\ wd = "stopped"
    /\ tasks[1].status = "finished" /\ tasks[1].calls >= 1 /\ tasks[1].cleanups = 1

\* C16 (as stated): when an online run() has returned the error of the
\* listener, the state is Failed, the watchdog has been stopped and no SyncTask
\* is live
C16_ListenerErrorStopsWatchdog ==
    \A c \in RunCallers :
        (runPc[c] = "done" /\ runRes[c] = "io_error" /\ ~opts.offline) =>
           /\ serverState = "Failed"
           /\ wd = "stopped"
           /\ \A i \in Instances : ~Live(i)

\* C17: a SyncTask enters its loop body only through a loop condition that
\* read StopSignal false, and invokes sync_blocks once per entry; a loop
\* condition evaluated with StopSignal true leads past the loop to cleanup();
\* a new instance starts at the loop condition with no sync_blocks call made.
\* So an instance starts at most one sync_blocks invocation after StopSignal
\* became true, and none when it was spawned with StopSignal true
C17_StopSignalOncePerIteration ==
    [][\A i \in Instances :
          /\ (tasks[i].pc # "tick" /\ tasks'[i].pc = "tick") =>
                (tasks[i].pc = "check" /\ ~stopped)
          /\ tasks'[i].calls # tasks[i].calls =>
                /\ tasks[i].pc = "tick" /\ tasks'[i].pc = "sync"
                /\ tasks'[i].calls = tasks[i].calls + 1
          /\ (stopped /\ tasks[i].pc = "check" /\ tasks'[i] # tasks[i]) =>
                \/ tasks'[i].status = "cancelled"
                \/ /\ tasks'[i].pc = "cleanup"
                   /\ tasks'[i].cleanups = tasks[i].cleanups + 1
          /\ (tasks[i].status = "none" /\ tasks'[i].status # "none") =>
                (tasks'[i].pc = "check" /\ tasks'[i].calls = 0)]_vars

\* StopSignal is true and a SyncTask that passed the loop condition before is
\* about to start its one further sync_blocks invocation
C17_Witness ==
    /\ stopped
    /\ Live(1) /\ tasks[1].pc = "tick" /\ tasks[1].calls = 1

\* C18: every iteration of the supervised SyncTask that completes, failed or
\* not, resets the staleness timer of the watchdog and restarts nothing; the
\* restart counter changes only when the timer has run for the whole timeout,
\* and that step changes neither ServerState, nor StopSignal, nor the
\* listener, nor any run() or stop() call
C18_NoRestartWhileIterating ==
    /\ [](lastHeartbeat <= now)
    /\ [][/\ \A i \in Instances :
                (tasks[i].pc = "heartbeat" /\ tasks'[i].pc # "heartbeat"
                 /\ tasks'[i].status = "live") =>
                   /\ lastHeartbeat' = now
                   /\ SYNC_THREAD_RESTARTS' = SYNC_THREAD_RESTARTS
          /\ SYNC_THREAD_RESTARTS' # SYNC_THREAD_RESTARTS =>
                /\ now - lastHeartbeat >= BLOCK_SYNC_TIMEOUT
                /\ UNCHANGED <<lifecycleVars, stopVars, listenerVars>>]_vars

\* two iterations in a row have failed, each emitted its heartbeat, and the
\* watchdog, past its first interval, has restarted nothing
C18_Witness ==
    /\ SYNC_ERR_COUNTER = 2 /\ consecutiveErrors = 2
    /\ Live(1) /\ tasks[1].hbs = 2
    /\ ~wdSkip /\ lastHeartbeat = now /\ now > 0
    /\ SYNC_THREAD_RESTARTS = 0

\* C19: at most one SyncTask instance is live; it is the last one spawned and
\* the one the watchdog supervises, every earlier instance being cancelled or
\* finished
C19_OneLiveInstance ==
    /\ Cardinality({i \in Instances : Live(i)}) <= 1
    /\ \A i \in Instances :
          /\ Live(i) => (i = nTasks /\ wdTask = i)
          /\ (i < nTasks) => Terminated(i)
          /\ (i > nTasks) => tasks[i] = NoTask

\* after a restart the second instance is in sync_blocks, the first cancelled
C19_Witness ==
    /\ tasks[1].status = "cancelled" /\ tasks[1].pc = "sync"
    /\ Live(2) /\ tasks[2].pc = "sync"

\* C20 (as stated): over all SyncTask instances cleanup() is invoked at most
\* once, and an instance spawned after one that invoked cleanup() invokes
\* neither sync_blocks nor cleanup()
C20_CleanupAtMostOnce ==
    \A i \in Instances :
        tasks[i].cleanups >= 1 =>
           /\ tasks[i].cleanups = 1
           /\ \A j \in Instances :
                 j # i => (tasks[j].cleanups = 0 /\ (j > i => tasks[j].calls = 0))

\* the loop of SyncTask i is cut by a bound of the model: it waits for a tick
\* that the model does not let come
AtBound(i) ==
    /\ Live(i) /\ tasks[i].pc = "tick"
    /\ tasks[i].calls = MaxIter \/ tasks[i].nextTick > MaxTime

\* StopSignal is set while an online run() is serving
ShutdownRequested ==
    /\ stopped
    /\ ~opts.offline
    /\ \E c \in RunCallers : runPc[c] = "serving"
    /\ \A i \in Instances : ~AtBound(i)

\* the online run() has returned Ok with the state Started, the watchdog stop
\* has completed and no SyncTask is in its loop
ShutdownDone ==
    /\ serverState = "Started"
    /\ \E c \in RunCallers : Winner(c) /\ runPc[c] = "done" /\ runRes[c] = "ok"
    /\ wd = "stopped"
    /\ \A i \in Instances : ~Live(i)

\* C21: under fair scheduling, with sync_blocks, cleanup() and the drain of
\* the listener returning, a stop() during a serving online run() leads to the
\* SyncTask out of its loop, the watchdog stop completed and run() returned Ok
\* with the state Started, unless the listener completes with an error
C21_ShutdownTerminates ==
    ShutdownRequested ~> (ShutdownDone \/ listener = "done_err")

\* stop() has returned, the SyncTask left its loop after an iteration and ran
\* cleanup(), and the online run() has returned with Started
C21_Witness ==
    /\ ShutdownDone
    /\ stopped /\ \E s \in StopCallers : stopPc[s] = "done"
    /\ ~opts.exit_on_sync
    /\ tasks[1].status = "finished" /\ tasks[1].calls >= 1 /\ tasks[1].cleanups = 1

====
